---- MODULE Spec2Model ----
(***************************************************************************)
(* A model of tools/weather_tools.py: the get_weather tool.  One call is   *)
(* followed from its invocation, through the normalisation of the          *)
(* location, the single HTTP GET, the upstream's answer and the extraction *)
(* of the weather record, to the value it returns (or the exception that   *)
(* leaves it).                                                             *)
(*                                                                         *)
(* Python values are tagged records [t |-> type, v |-> payload].  A string *)
(* is a sequence of pieces: a location is a sequence of characters, a      *)
(* literal of the program is one piece.  An expression that raises         *)
(* evaluates to [t |-> "raise", v |-> <<kind>>], and every operator passes *)
(* a raised operand on, as Python's evaluation order does.                 *)
(***************************************************************************)
EXTENDS Naturals, Sequences, FiniteSets, TLC

(* Bounds of the model. *)
MaxLen == 4
MaxDefects == 1

VARIABLES pc, location, requests, response, result

(* The state of the interactive chat loop (chat.py, chat_with_guardrails.py). *)
VARIABLES program, cpc, user_input, is_safe, safety_response, forwarded,
          response_text, output_safe, printed, logged, raised, stop, sigint

tool_vars == <<pc, location, requests, response, result>>

chat_vars ==
    <<program, cpc, user_input, is_safe, safety_response, forwarded,
      response_text, output_safe, printed, logged, raised, stop, sigint>>

vars == <<tool_vars, chat_vars>>

-----------------------------------------------------------------------------
(* Python values *)

PyStr(s) == [t |-> "str", v |-> s]
PyNone == [t |-> "None", v |-> <<>>]
PyList(s) == [t |-> "list", v |-> s]
PyDict(f) == [t |-> "dict", v |-> f]
EmptyDict == PyDict([k \in {} |-> k])
Raise(kind) == [t |-> "raise", v |-> <<kind>>]
Pending == [t |-> "pending", v |-> <<>>]

IsRaise(x) == x.t = "raise"

(* d.get(k, default) *)
Get(d, k, default) ==
    IF IsRaise(d) THEN d
    ELSE IF d.t # "dict" THEN Raise("AttributeError")
    ELSE IF k \in DOMAIN d.v THEN d.v[k]
    ELSE default

(* x[0] *)
Index0(x) ==
    IF IsRaise(x) THEN x
    ELSE IF x.t = "list" THEN (IF Len(x.v) = 0 THEN Raise("IndexError") ELSE x.v[1])
    ELSE IF x.t = "dict" THEN Raise("KeyError")
    ELSE Raise("TypeError")

-----------------------------------------------------------------------------
(* Strings: str.strip() and str.replace(" ", "+") *)

Whitespace == {" ", "\t"}
Alphabet == {"a", " ", "\t"}

RECURSIVE LStrip(_)
LStrip(s) ==
    IF s # <<>> /\ Head(s) \in Whitespace THEN LStrip(Tail(s)) ELSE s

RECURSIVE RStrip(_)
RStrip(s) ==
    IF s # <<>> /\ s[Len(s)] \in Whitespace
    THEN RStrip(SubSeq(s, 1, Len(s) - 1))
    ELSE s

Strip(s) == RStrip(LStrip(s))

Replace(s) == [i \in 1..Len(s) |-> IF s[i] = " " THEN "+" ELSE s[i]]

location_clean(loc) == Replace(Strip(loc))

url(loc) == <<"https://wttr.in/">> \o location_clean(loc) \o <<"?format=j1">>

Locations == UNION {[1..n -> Alphabet] : n \in 0..MaxLen}

-----------------------------------------------------------------------------
(* The upstream: what client.get(url) can produce *)

(* httpx.HTTPError and its subclasses: transport failures, timeouts and the *)
(* HTTPStatusError of raise_for_status. *)
HTTPError == {"ConnectError", "ConnectTimeout", "ReadTimeout", "HTTPStatusError"}

(* Subclasses of Exception that are not httpx.HTTPError. *)
OtherException ==
    {"InvalidURL", "JSONDecodeError", "AttributeError", "IndexError",
     "KeyError", "TypeError"}

(* The exceptions client.get raises instead of answering. *)
TransportFailure == {"ConnectError", "ConnectTimeout", "ReadTimeout"}

StatusCodes == {200, 301, 404, 503}

NotJson == [t |-> "notjson", v |-> <<>>]

Http(status_code, body) ==
    [t |-> "response", v |-> [status_code |-> status_code, body |-> body]]

(* The keys of the upstream's current_condition record that the tool reads *)
(* directly, each with the value a fully populated answer holds for it.    *)
DirectKeys ==
    {"temp_F", "temp_C", "humidity", "windspeedMiles", "FeelsLikeF",
     "observation_time"}

Slots == {"current_condition", "weatherDesc", "nearest_area", "areaName", "country"}
             \cup DirectKeys

Populated(k) == PyStr(<<"upstream " \o k>>)

(* A list of objects with a "value" entry, as weatherDesc, areaName, country. *)
ValueList(k, variant) ==
    CASE variant = "full" -> PyList(<<PyDict([value |-> Populated(k)])>>)
      [] variant = "novalue" -> PyList(<<EmptyDict>>)
      [] variant = "nullvalue" -> PyList(<<PyDict([value |-> PyNone])>>)
      [] variant = "empty" -> PyList(<<>>)
      [] variant = "null" -> PyNone

Direct(k, variant) ==
    CASE variant = "full" -> Populated(k)
      [] variant = "null" -> PyNone

Collection(obj, variant) ==
    CASE variant = "full" -> PyList(<<obj>>)
      [] variant = "empty" -> PyList(<<>>)
      [] variant = "null" -> PyNone

Variants(slot) ==
    IF slot \in DirectKeys THEN {"absent", "null"}
    ELSE IF slot \in {"current_condition", "nearest_area"} THEN {"absent", "empty", "null"}
    ELSE {"absent", "novalue", "nullvalue", "empty", "null"}

AllVariants == {"absent", "novalue", "nullvalue", "empty", "null"}

(* The shapes of a JSON answer: every slot populated, but for at most *)
(* MaxDefects slots that are absent, empty or null.                   *)
Shapes ==
    UNION {
      { [s \in Slots |-> IF s \in D THEN g[s] ELSE "full"] :
          g \in {h \in [D -> AllVariants] : \A s \in D : h[s] \in Variants(s)} } :
      D \in {E \in SUBSET Slots : Cardinality(E) <= MaxDefects} }

Present(f, keys) == {k \in keys : f[k] # "absent"}

CurrentObject(f) ==
    PyDict([k \in Present(f, DirectKeys \cup {"weatherDesc"}) |->
              IF k = "weatherDesc" THEN ValueList(k, f[k]) ELSE Direct(k, f[k])])

AreaObject(f) ==
    PyDict([k \in Present(f, {"areaName", "country"}) |-> ValueList(k, f[k])])

Data(f) ==
    PyDict([k \in Present(f, {"current_condition", "nearest_area"}) |->
              IF k = "current_condition"
              THEN Collection(CurrentObject(f), f[k])
              ELSE Collection(AreaObject(f), f[k])])

FullShape == [s \in Slots |-> "full"]

(* The bodies of an answer: JSON objects, JSON that is no object, no JSON. *)
Bodies == {Data(f) : f \in Shapes} \cup {PyList(<<>>), PyNone, NotJson}

Responses ==
    {Raise(k) : k \in TransportFailure}
      \cup {Http(200, b) : b \in Bodies}
      \cup {Http(c, NotJson) : c \in StatusCodes \ {200}}

-----------------------------------------------------------------------------
(* get_weather: the body of the try block, from the upstream's answer on *)

(* response.raise_for_status() *)
raise_for_status(resp) ==
    IF IsRaise(resp) THEN resp
    ELSE IF resp.v.status_code >= 200 /\ resp.v.status_code <= 299 THEN resp
    ELSE Raise("HTTPStatusError")

(* data = response.json() *)
json(resp) ==
    IF IsRaise(resp) THEN resp
    ELSE IF resp.v.body = NotJson THEN Raise("JSONDecodeError")
    ELSE resp.v.body

current(data) == Index0(Get(data, "current_condition", PyList(<<EmptyDict>>)))

location_info(data) == Index0(Get(data, "nearest_area", PyList(<<EmptyDict>>)))

(* X.get(k, [{}])[0].get("value", default) *)
FirstValue(obj, k, default) ==
    Get(Index0(Get(obj, k, PyList(<<EmptyDict>>))), "value", default)

NA == PyStr(<<"N/A">>)
Unknown == PyStr(<<"Unknown">>)

RecordKeys ==
    <<"location", "area_name", "country", "temperature_f", "temperature_c",
      "condition", "humidity", "wind_speed_mph", "feels_like_f",
      "observation_time">>

(* Variant: the two temperature entries read each other's upstream key. *)
Field_Swapped(key, loc, cur, info) ==
    CASE key = "location" -> PyStr(loc)
      [] key = "area_name" -> FirstValue(info, "areaName", PyStr(loc))
      [] key = "country" -> FirstValue(info, "country", Unknown)
      [] key = "temperature_f" -> Get(cur, "temp_C", NA)
      [] key = "temperature_c" -> Get(cur, "temp_F", NA)
      [] key = "condition" -> FirstValue(cur, "weatherDesc", NA)
      [] key = "humidity" -> Get(cur, "humidity", NA)
      [] key = "wind_speed_mph" -> Get(cur, "windspeedMiles", NA)
      [] key = "feels_like_f" -> Get(cur, "FeelsLikeF", NA)
      [] key = "observation_time" -> Get(cur, "observation_time", NA)

(* The value of each entry of the weather_data literal, in source order. *)
Field(key, loc, cur, info) ==
    CASE key = "location" -> PyStr(loc)
      [] key = "area_name" -> FirstValue(info, "areaName", PyStr(loc))
      [] key = "country" -> FirstValue(info, "country", Unknown)
      [] key = "temperature_f" -> Get(cur, "temp_F", NA)
      [] key = "temperature_c" -> Get(cur, "temp_C", NA)
      [] key = "condition" -> FirstValue(cur, "weatherDesc", NA)
      [] key = "humidity" -> Get(cur, "humidity", NA)
      [] key = "wind_speed_mph" -> Get(cur, "windspeedMiles", NA)
      [] key = "feels_like_f" -> Get(cur, "FeelsLikeF", NA)
      [] key = "observation_time" -> Get(cur, "observation_time", NA)

(* The first of a sequence of values that raises, or none. *)
RECURSIVE FirstRaise(_)
FirstRaise(seq) ==
    IF seq = <<>> THEN Pending
    ELSE IF IsRaise(Head(seq)) THEN Head(seq)
    ELSE FirstRaise(Tail(seq))

Range(seq) == {seq[i] : i \in 1..Len(seq)}

weather_data(loc, data) ==
    LET cur == current(data)
        info == location_info(data)
        values == [i \in 1..Len(RecordKeys) |-> Field(RecordKeys[i], loc, cur, info)]
        failed == FirstRaise(<<cur, info>> \o values)
    IN  IF IsRaise(failed) THEN failed
        ELSE PyDict([k \in Range(RecordKeys) |-> Field(k, loc, cur, info)])

TryBody(loc, resp) == weather_data(loc, json(raise_for_status(resp)))

(* str(e) *)
StrOf(e) == e.v

(* Variant: the error mapping echoes the normalised location. *)
ErrorDict_Clean(prefix, e, loc) ==
    PyDict([error |-> PyStr(<<prefix>> \o StrOf(e)),
            location |-> PyStr(location_clean(loc))])

ErrorDict(prefix, e, loc) ==
    PyDict([error |-> PyStr(<<prefix>> \o StrOf(e)), location |-> PyStr(loc)])

(* Variant: only the httpx.HTTPError clause, no general one. *)
Handle_HTTPOnly(e, loc) ==
    IF e.v[1] \in HTTPError THEN ErrorDict("Failed to fetch weather data: ", e, loc)
    ELSE e

(* Variant: the general clause comes first and takes every Exception. *)
Handle_GeneralFirst(e, loc) ==
    IF e.v[1] \in HTTPError \cup OtherException
    THEN ErrorDict("Unexpected error: ", e, loc)
    ELSE e

(* The except clauses: what a raised exception becomes. *)
Handle(e, loc) ==
    IF e.v[1] \in HTTPError THEN ErrorDict("Failed to fetch weather data: ", e, loc)
    ELSE IF e.v[1] \in OtherException THEN ErrorDict("Unexpected error: ", e, loc)
    ELSE e

get_weather(loc, resp) ==
    LET out == TryBody(loc, resp)
    IN  IF IsRaise(out) THEN Handle(out, loc) ELSE out

-----------------------------------------------------------------------------
(* The steps of one call *)

(* The per-turn state of the chat loop before anything was read. *)
TurnReset ==
    /\ is_safe = "unset"
    /\ safety_response = <<>>
    /\ forwarded = <<>>
    /\ response_text = <<>>
    /\ output_safe = "unset"
    /\ printed = <<>>
    /\ logged = {}
    /\ raised = "none"

(* The tool alone: no chat loop is running. *)
ChatOff ==
    /\ program = "chat"
    /\ cpc = "off"
    /\ user_input = <<>>
    /\ stop = "none"
    /\ sigint = FALSE
    /\ TurnReset

ToolIdle ==
    /\ pc = "idle"
    /\ location = <<>>
    /\ requests = <<>>
    /\ response = Pending
    /\ result = Pending

Init == ToolIdle /\ ChatOff

(* The agent framework invokes the tool with a location. *)
Call ==
    /\ pc = "idle"
    /\ \E loc \in Locations : location' = loc
    /\ pc' = "called"
    /\ requests' = <<>>
    /\ response' = Pending
    /\ result' = Pending
    /\ UNCHANGED chat_vars

(* The URL is built and the GET is sent. *)
Send ==
    /\ pc = "called"
    /\ requests' = Append(requests, location_clean(location))
    /\ pc' = "awaiting"
    /\ UNCHANGED <<location, response, result>>
    /\ UNCHANGED chat_vars

(* The client refuses a URL that holds a control character. *)
RejectURL ==
    /\ pc = "called"
    /\ \E i \in 1..Len(location_clean(location)) : location_clean(location)[i] = "\t"
    /\ response' = Raise("InvalidURL")
    /\ pc' = "responded"
    /\ UNCHANGED <<location, requests, result>>
    /\ UNCHANGED chat_vars

(* The upstream answers, or the transport fails. *)
Respond ==
    /\ pc = "awaiting"
    /\ \E r \in Responses : response' = r
    /\ pc' = "responded"
    /\ UNCHANGED <<location, requests, result>>
    /\ UNCHANGED chat_vars

(* The caller cancels the task while it awaits the answer. *)
Cancel ==
    /\ pc = "awaiting"
    /\ response' = Raise("CancelledError")
    /\ pc' = "responded"
    /\ UNCHANGED <<location, requests, result>>
    /\ UNCHANGED chat_vars

(* Variant: a failed attempt is tried once more before giving up. *)
Return_Retry ==
    /\ pc = "responded"
    /\ IF IsRaise(TryBody(location, response))
          /\ TryBody(location, response).v[1] \in HTTPError
          /\ Len(requests) < 2
       THEN /\ pc' = "called"
            /\ UNCHANGED result
       ELSE /\ pc' = "done"
            /\ result' = get_weather(location, response)
    /\ UNCHANGED <<location, requests, response>>
    /\ UNCHANGED chat_vars

(* The rest of the function runs to its return (or to the exception that *)
(* leaves it).                                                          *)
Return ==
    /\ pc = "responded"
    /\ result' = get_weather(location, response)
    /\ pc' = "done"
    /\ UNCHANGED <<location, requests, response>>
    /\ UNCHANGED chat_vars

(* The caller has used the outcome; nothing of the call is kept. *)
Discard ==
    /\ pc = "done"
    /\ pc' = "idle"
    /\ location' = <<>>
    /\ requests' = <<>>
    /\ response' = Pending
    /\ result' = Pending
    /\ UNCHANGED chat_vars

Next == Call \/ Send \/ RejectURL \/ Respond \/ Cancel \/ Return \/ Discard

Spec == Init /\ [][Next]_vars

-----------------------------------------------------------------------------
(* The interactive chat loop: InteractiveChat.chat_loop and send_message of *)
(* chat.py ("chat") and chat_with_guardrails.py ("chat_with_guardrails").   *)
(* Text is a sequence of pieces, as above; a piece here is a word.          *)

(* Bounds of the chat model. *)
MaxLine == 2
MaxChunks == 2
MaxEvents == 2

Programs == {"chat", "chat_with_guardrails"}

(* str.lower(), piece by piece *)
LowerPiece(c) ==
    CASE c = "Quit" -> "quit"
      [] c = "BYE" -> "bye"
      [] c = "Q" -> "q"
      [] c = "Cannot" -> "cannot"
      [] c = "UNSAFE" -> "unsafe"
      [] OTHER -> c

Lower(s) == [i \in 1..Len(s) |-> LowerPiece(s[i])]

(* ["exit", "quit", "bye", "q"] *)
ExitWords == {<<"exit">>, <<"quit">>, <<"bye">>, <<"q">>}

LineAlphabet == {"exit", "Quit", "BYE", "q", "Q", "hi", " "}

(* The lines input() can return. *)
Lines == UNION {[1..n -> LineAlphabet] : n \in 0..MaxLine}

(* "".join(response_chunks) *)
RECURSIVE Join(_)
Join(chunks) == IF chunks = <<>> THEN <<>> ELSE Head(chunks) \o Join(Tail(chunks))

(* word in text *)
Contains(text, word) == \E i \in 1..Len(text) : text[i] = word

(* chunk in text, for a chunk of several pieces *)
IsSubSeq(chunk, text) ==
    \E i \in 0..(Len(text) - Len(chunk)) :
        \A j \in 1..Len(chunk) : text[i + j] = chunk[j]

(* "cannot" in response_text.lower() or "unsafe" in response_text.lower() *)
IsBlocked(text) ==
    Contains(Lower(text), "cannot") \/ Contains(Lower(text), "unsafe")

GuardAlphabet == {"I", "Cannot", "UNSAFE", "fine"}

(* What rails.stream_async does: it streams chunks, or raises. *)
RailsStreams == UNION {[1..n -> {<<c>> : c \in GuardAlphabet}] : n \in 0..MaxChunks}

RailsOutcomes ==
    {[t |-> "chunks", v |-> cs] : cs \in RailsStreams} \cup {Raise("RailsError")}

(* Variant: an error of the input check blocks the message. *)
check_input_safety_FailClosed(outcome) ==
    IF IsRaise(outcome)
    THEN [t |-> "tuple", is_safe |-> "False", text |-> <<>>,
          log |-> {"Error checking input safety"}]
    ELSE [t |-> "tuple",
          is_safe |-> IF IsBlocked(Join(outcome.v)) THEN "False" ELSE "True",
          text |-> Join(outcome.v),
          log |-> {}]

(* check_input_safety: (is_safe, response_text), or the exception that *)
(* leaves it.                                                          *)
check_input_safety(outcome) ==
    IF IsRaise(outcome)
    THEN [t |-> "tuple", is_safe |-> "True", text |-> <<>>,
          log |-> {"Error checking input safety"}]
    ELSE [t |-> "tuple",
          is_safe |-> IF IsBlocked(Join(outcome.v)) THEN "False" ELSE "True",
          text |-> Join(outcome.v),
          log |-> {}]

(* check_output_safety: True or False, or the exception that leaves it. *)
check_output_safety(outcome) ==
    IF IsRaise(outcome)
    THEN [t |-> "bool", is_safe |-> "True", log |-> {"Error checking output safety"}]
    ELSE [t |-> "bool",
          is_safe |-> IF IsBlocked(Join(outcome.v)) THEN "False" ELSE "True",
          log |-> {}]

(* The text of the events of runner.run_async: per event the joined text *)
(* parts (empty when the event has none).                                *)
EventChunks == {<<>>, <<" ">>, <<"sunny">>, <<"sunny", " ">>}

RunnerStreams == UNION {[1..n -> EventChunks] : n \in 0..MaxEvents}

RunnerOutcomes ==
    {[t |-> "events", v |-> es] : es \in RunnerStreams} \cup {Raise("RunnerError")}

(* The loop over the events: a chunk is printed and appended when it is *)
(* not blank and not yet part of the response.                          *)
RECURSIVE Accumulate(_, _)
Accumulate(events, text) ==
    IF events = <<>> THEN text
    ELSE IF Strip(Head(events)) # <<>> /\ ~IsSubSeq(Head(events), text)
         THEN Accumulate(Tail(events), text \o Head(events))
         ELSE Accumulate(Tail(events), text)

-----------------------------------------------------------------------------
(* The steps of the chat loop *)

ChatInit ==
    /\ ToolIdle
    /\ program \in Programs
    /\ cpc = "input"
    /\ user_input = <<>>
    /\ stop = "none"
    /\ sigint = FALSE
    /\ TurnReset

(* Variant: the general clause reports the exception and leaves the loop. *)
Report_Break(kind, out) ==
    /\ raised' = kind
    /\ logged' = logged \cup {"Error in chat loop"}
    /\ printed' = out \o <<"Error: ", kind, "Let's try again...">>
    /\ cpc' = "stopped"
    /\ stop' = kind
    /\ UNCHANGED sigint

(* The except Exception clause of chat_loop: report and go on. *)
Report(kind, out) ==
    /\ raised' = kind
    /\ logged' = logged \cup {"Error in chat loop"}
    /\ printed' = out \o <<"Error: ", kind, "Let's try again...">>
    /\ cpc' = "input"
    /\ UNCHANGED <<stop, sigint>>

(* What leaves send_message: an Exception is reported, anything else *)
(* ends the loop.                                                    *)
Leave(e, out) ==
    IF e.v[1] \in {"RailsError", "RunnerError", "EOFError"}
    THEN Report(e.v[1], out)
    ELSE /\ raised' = e.v[1]
         /\ stop' = e.v[1]
         /\ cpc' = "stopped"
         /\ printed' = out
         /\ UNCHANGED <<logged, sigint>>

(* runner.run_async is given the line; "Agent: " is printed. *)
Forward(line) ==
    /\ forwarded' = <<line>>
    /\ printed' = <<"Agent: ">>
    /\ cpc' = "agent"

(* The top of the loop: input() prints its prompt and waits; what the *)
(* last turn left is over.                                            *)
Prompt ==
    /\ cpc = "input"
    /\ cpc' = "reading"
    /\ is_safe' = "unset"
    /\ safety_response' = <<>>
    /\ forwarded' = <<>>
    /\ response_text' = <<>>
    /\ output_safe' = "unset"
    /\ logged' = {}
    /\ raised' = "none"
    /\ printed' = <<"You: ">>
    /\ UNCHANGED <<program, user_input, stop, sigint, tool_vars>>

(* input() returns a line: exit word, empty line, or a message. *)
ReadLine ==
    /\ cpc = "reading"
    /\ \E line \in Lines : user_input' = Strip(line)
    /\ IF Lower(user_input') \in ExitWords
       THEN /\ cpc' = "stopped"
            /\ stop' = "exit"
            /\ printed' = <<"Goodbye! Thanks for chatting.">>
            /\ UNCHANGED forwarded
       ELSE IF user_input' = <<>>
       THEN /\ cpc' = "input"
            /\ UNCHANGED <<printed, forwarded, stop>>
       ELSE IF program = "chat_with_guardrails"
       THEN /\ cpc' = "check_input"
            /\ UNCHANGED <<printed, forwarded, stop>>
       ELSE /\ Forward(user_input')
            /\ UNCHANGED stop
    /\ UNCHANGED <<program, is_safe, safety_response, response_text, output_safe,
                   logged, raised, sigint, tool_vars>>

(* input() raises EOFError: standard input is at its end. *)
ReadFails ==
    /\ cpc = "reading"
    /\ Report("EOFError", printed)
    /\ UNCHANGED <<program, user_input, is_safe, safety_response, forwarded,
                   response_text, output_safe, tool_vars>>

(* Ctrl+C: KeyboardInterrupt inside the loop's try block, which the loop *)
(* catches, or, while the task is suspended, the CancelledError by which *)
(* asyncio.run ends the task.                                            *)
Interrupt ==
    /\ cpc \in {"reading", "check_input", "agent", "check_output"}
    /\ \E kind \in IF cpc = "reading" THEN {"KeyboardInterrupt"}
                   ELSE {"KeyboardInterrupt", "CancelledError"} :
          /\ raised' = kind
          /\ stop' = kind
          /\ printed' = IF kind = "KeyboardInterrupt"
                        THEN printed \o <<"Chat interrupted. Goodbye!">>
                        ELSE printed
    /\ sigint' = TRUE
    /\ cpc' = "stopped"
    /\ UNCHANGED <<program, user_input, is_safe, safety_response, forwarded,
                   response_text, output_safe, logged, tool_vars>>

(* Variant: an unsafe line is answered by the guardrail and still sent on. *)
CheckInput_ForwardAnyway ==
    /\ cpc = "check_input"
    /\ \E outcome \in RailsOutcomes :
          LET r == check_input_safety(outcome)
          IN  /\ is_safe' = r.is_safe
              /\ safety_response' = r.text
              /\ logged' = logged \cup r.log
              /\ forwarded' = <<user_input>>
              /\ printed' = IF r.is_safe = "False"
                            THEN <<"Guardrails: ">> \o r.text \o <<"Agent: ">>
                            ELSE <<"Agent: ">>
              /\ cpc' = "agent"
    /\ UNCHANGED <<program, user_input, response_text, output_safe, raised,
                   stop, sigint, tool_vars>>

(* send_message, guardrailed: the input check answers; an unsafe line is *)
(* answered with the guardrail's text, any other is given to the runner. *)
CheckInput ==
    /\ cpc = "check_input"
    /\ \E outcome \in RailsOutcomes :
          LET r == check_input_safety(outcome)
          IN  IF IsRaise(r)
              THEN /\ Leave(r, printed)
                   /\ UNCHANGED <<is_safe, safety_response, forwarded>>
              ELSE /\ is_safe' = r.is_safe
                   /\ safety_response' = r.text
                   /\ logged' = logged \cup r.log
                   /\ IF r.is_safe = "False"
                      THEN /\ printed' = <<"Guardrails: ">> \o r.text
                           /\ cpc' = "input"
                           /\ UNCHANGED forwarded
                      ELSE Forward(user_input)
                   /\ UNCHANGED <<raised, stop, sigint>>
    /\ UNCHANGED <<program, user_input, response_text, output_safe, tool_vars>>

(* The events of the runner are read to their end, or the runner raises. *)
AgentAnswers ==
    /\ cpc = "agent"
    /\ \E outcome \in RunnerOutcomes :
          IF IsRaise(outcome)
          THEN /\ Leave(outcome, printed)
               /\ UNCHANGED response_text
          ELSE /\ response_text' = Accumulate(outcome.v, <<>>)
               /\ IF program = "chat_with_guardrails" /\ Strip(response_text') # <<>>
                  THEN /\ cpc' = "check_output"
                       /\ printed' = printed \o response_text'
                  ELSE /\ cpc' = "input"
                       /\ printed' = printed \o response_text' \o <<"\n">>
               /\ UNCHANGED <<logged, raised, stop, sigint>>
    /\ UNCHANGED <<program, user_input, is_safe, safety_response, forwarded,
                   output_safe, tool_vars>>

(* send_message, guardrailed: the output check answers. *)
CheckOutput ==
    /\ cpc = "check_output"
    /\ \E outcome \in RailsOutcomes :
          LET r == check_output_safety(outcome)
          IN  IF IsRaise(r)
              THEN /\ Leave(r, printed)
                   /\ UNCHANGED output_safe
              ELSE /\ output_safe' = r.is_safe
                   /\ logged' = logged \cup r.log
                   /\ printed' = IF r.is_safe = "False"
                                 THEN printed \o <<"[Response was filtered by guardrails]", "\n">>
                                 ELSE printed \o <<"\n">>
                   /\ cpc' = "input"
                   /\ UNCHANGED <<raised, stop, sigint>>
    /\ UNCHANGED <<program, user_input, is_safe, safety_response, forwarded,
                   response_text, tool_vars>>

ChatNext ==
    Prompt \/ ReadLine \/ ReadFails \/ Interrupt \/ CheckInput \/ AgentAnswers \/ CheckOutput

SpecChat == ChatInit /\ [][ChatNext]_vars

-----------------------------------------------------------------------------
(* Vocabulary of the properties *)

WeatherFields == Range(RecordKeys) \ {"location"}

CurrentFields ==
    {"temperature_f", "temperature_c", "condition", "humidity",
     "wind_speed_mph", "feels_like_f", "observation_time"}

IsWeatherRecord(x) ==
    /\ x.t = "dict"
    /\ "error" \notin DOMAIN x.v
    /\ WeatherFields \subseteq DOMAIN x.v

IsErrorMapping(x) ==
    /\ x.t = "dict"
    /\ "error" \in DOMAIN x.v
    /\ DOMAIN x.v \cap WeatherFields = {}

(* An error mapping with the given message prefix that echoes the input. *)
IsErrorWith(x, prefix, loc) ==
    /\ x.t = "dict"
    /\ DOMAIN x.v = {"error", "location"}
    /\ x.v["error"].t = "str"
    /\ Head(x.v["error"].v) = prefix
    /\ x.v["location"] = PyStr(loc)

Succeeded(resp) ==
    /\ resp.t = "response"
    /\ resp.v.status_code >= 200
    /\ resp.v.status_code <= 299

(* DNS failure, refused connection, timeout, or a status other than 2xx. *)
NetworkFailure(resp) ==
    \/ IsRaise(resp) /\ resp.v[1] \in TransportFailure
    \/ resp.t = "response" /\ ~Succeeded(resp)

Cancelled(resp) == resp = Raise("CancelledError")

-----------------------------------------------------------------------------
(* C1: every finished call that was not cancelled by its caller, whatever  *)
(* the upstream did, ended in exactly one outcome: a weather record (no    *)
(* "error" key) or an error mapping ("error" key, no weather field), never *)
(* both, never neither, and no exception left the function.                *)
C1_ExactlyOneOutcome ==
    (pc = "done" /\ location # <<>> /\ ~Cancelled(response)) =>
        /\ ~IsRaise(result)
        /\ IsWeatherRecord(result) \/ IsErrorMapping(result)
        /\ ~(IsWeatherRecord(result) /\ IsErrorMapping(result))

C1_Witness ==
    /\ pc = "done"
    /\ location # <<>>
    /\ Succeeded(response)
    /\ response.v.body = PyNone
    /\ IsErrorMapping(result)

(* C2: the path segment of every outbound request is the location trimmed, *)
(* with every run of whitespace inside it replaced by one "+".              *)
RECURSIVE CollapseRuns(_)
CollapseRuns(s) ==
    IF s = <<>> THEN <<>>
    ELSE IF Head(s) \in Whitespace THEN <<"+">> \o CollapseRuns(LStrip(s))
    ELSE <<Head(s)>> \o CollapseRuns(Tail(s))

C2_PathJoinsWhitespaceRuns ==
    \A i \in 1..Len(requests) : requests[i] = CollapseRuns(Strip(location))

(* C3: a successful answer whose current_condition list is present but    *)
(* empty gives a weather record whose seven current-condition fields are  *)
(* all "N/A".                                                             *)
C3_EmptyCurrentGivesSentinels ==
    (/\ pc = "done"
     /\ Strip(location) # <<>>
     /\ Succeeded(response)
     /\ response.v.body.t = "dict"
     /\ "current_condition" \in DOMAIN response.v.body.v
     /\ response.v.body.v["current_condition"] = PyList(<<>>)) =>
        /\ IsWeatherRecord(result)
        /\ \A k \in CurrentFields : result.v[k] = NA

(* C4: a successful answer that lacks the nearest-area data (the          *)
(* collection absent or empty, or both its areaName and country entries   *)
(* absent or empty) gives a weather record whose area_name is the         *)
(* requested location and whose country is "Unknown".                     *)
Lacks(obj, k) == k \notin DOMAIN obj.v \/ obj.v[k] = PyList(<<>>)

NearestAreaMissing(body) ==
    /\ body.t = "dict"
    /\ "current_condition" \in DOMAIN body.v
    /\ body.v["current_condition"] = Data(FullShape).v["current_condition"]
    /\ \/ Lacks(body, "nearest_area")
       \/ /\ body.v["nearest_area"].t = "list"
          /\ body.v["nearest_area"].v[1].t = "dict"
          /\ Lacks(body.v["nearest_area"].v[1], "areaName")
          /\ Lacks(body.v["nearest_area"].v[1], "country")

C4_MissingAreaGivesDefaults ==
    (/\ pc = "done"
     /\ Strip(location) # <<>>
     /\ Succeeded(response)
     /\ NearestAreaMissing(response.v.body)) =>
        /\ IsWeatherRecord(result)
        /\ result.v["area_name"] = PyStr(location)
        /\ result.v["country"] = Unknown

(* C5: a successful, fully populated answer gives a record of exactly the *)
(* ten keys, location being the input as given and every other key the   *)
(* upstream value mapped to it.                                           *)
C5_Expected ==
    PyDict([location |-> PyStr(location),
            area_name |-> Populated("areaName"),
            country |-> Populated("country"),
            temperature_f |-> Populated("temp_F"),
            temperature_c |-> Populated("temp_C"),
            condition |-> Populated("weatherDesc"),
            humidity |-> Populated("humidity"),
            wind_speed_mph |-> Populated("windspeedMiles"),
            feels_like_f |-> Populated("FeelsLikeF"),
            observation_time |-> Populated("observation_time")])

FullyPopulated(resp) == Succeeded(resp) /\ resp.v.body = Data(FullShape)

C5_PopulatedAnswerIsMapped ==
    (pc = "done" /\ FullyPopulated(response)) =>
        /\ result = C5_Expected
        /\ DOMAIN result.v = Range(RecordKeys)
        /\ Cardinality(DOMAIN result.v) = Len(RecordKeys)

C5_Witness ==
    /\ pc = "done"
    /\ FullyPopulated(response)
    /\ location # location_clean(location)
    /\ IsWeatherRecord(result)

(* C6: after a network-layer failure (no connection, a timeout, a status *)
(* other than 2xx) the call returns an error mapping whose message is the *)
(* "Failed to fetch weather data" one and whose location is the input as  *)
(* given, not the normalised one.                                         *)
C6_NetworkFailureIsTransportError ==
    (pc = "done" /\ NetworkFailure(response)) =>
        IsErrorWith(result, "Failed to fetch weather data: ", location)

C6_Witness ==
    /\ pc = "done"
    /\ response = Raise("ReadTimeout")
    /\ location # location_clean(location)
    /\ IsErrorWith(result, "Failed to fetch weather data: ", location)

(* C7: after a 2xx answer whose body is no JSON, or whose JSON holds a    *)
(* value of the wrong type where an object or a list is expected, the     *)
(* call returns an error mapping whose message is the "Unexpected error"  *)
(* one and whose location is the input as given; nothing is raised.       *)
NotAList(obj, k) == k \in DOMAIN obj.v /\ obj.v[k].t # "list"

WrongTypeIn(obj, k, inner) ==
    /\ k \in DOMAIN obj.v
    /\ obj.v[k].t = "list"
    /\ Len(obj.v[k].v) > 0
    /\ obj.v[k].v[1].t = "dict"
    /\ \E j \in inner : NotAList(obj.v[k].v[1], j)

UnexpectedStructure(body) ==
    \/ body.t # "dict"
    \/ /\ body.t = "dict"
       /\ \/ NotAList(body, "current_condition")
          \/ NotAList(body, "nearest_area")
          \/ WrongTypeIn(body, "current_condition", {"weatherDesc"})
          \/ WrongTypeIn(body, "nearest_area", {"areaName", "country"})

ParsingFailure(resp) ==
    /\ Succeeded(resp)
    /\ resp.v.body = NotJson \/ UnexpectedStructure(resp.v.body)

C7_ParsingFailureIsUnexpectedError ==
    (pc = "done" /\ ParsingFailure(response)) =>
        /\ ~IsRaise(result)
        /\ IsErrorWith(result, "Unexpected error: ", location)

C7_Witness ==
    /\ pc = "done"
    /\ Succeeded(response)
    /\ response.v.body = NotJson
    /\ location # location_clean(location)
    /\ IsErrorWith(result, "Unexpected error: ", location)

(* C8: no request goes out with an empty path segment: a location that is *)
(* empty or only whitespace is rejected before the network call.          *)
C8_NoRequestForBlankLocation ==
    \A i \in 1..Len(requests) : requests[i] # <<>>

(* C9: a call sends at most one request; after a failed attempt there is  *)
(* one error result and still one request; between calls nothing of a     *)
(* call is left.                                                          *)
C9_OneRequestNoRetry ==
    /\ Len(requests) <= 1
    /\ (pc = "done" /\ NetworkFailure(response)) =>
           (Len(requests) = 1 /\ IsErrorMapping(result))
    /\ pc = "idle" =>
           (requests = <<>> /\ response = Pending /\ result = Pending)

C9_Witness ==
    /\ pc = "done"
    /\ NetworkFailure(response)
    /\ response.t = "response"
    /\ Len(requests) = 1
    /\ IsErrorMapping(result)

(* C10: every weather record returned has all ten keys, no value of it is *)
(* null, and a current-condition field whose upstream entry is absent is  *)
(* "N/A".                                                                 *)
UpstreamKey ==
    [temperature_f |-> "temp_F", temperature_c |-> "temp_C",
     condition |-> "weatherDesc", humidity |-> "humidity",
     wind_speed_mph |-> "windspeedMiles", feels_like_f |-> "FeelsLikeF",
     observation_time |-> "observation_time"]

C10_FixedShapeNoNull ==
    (/\ pc = "done"
     /\ Strip(location) # <<>>
     /\ result.t = "dict"
     /\ "error" \notin DOMAIN result.v) =>
        /\ DOMAIN result.v = Range(RecordKeys)
        /\ \A k \in DOMAIN result.v : result.v[k] # PyNone
        /\ \A k \in CurrentFields :
               UpstreamKey[k] \notin DOMAIN current(response.v.body).v =>
                   result.v[k] = NA

-----------------------------------------------------------------------------
(* Properties of the chat loop, checked under SpecChat *)

LoopExceptions == {"EOFError", "RunnerError", "RailsError"}

Interrupts == {"KeyboardInterrupt", "CancelledError"}

GuardrailErrors == {"Error checking input safety", "Error checking output safety"}

FilterNotice == "[Response was filtered by guardrails]"

(* C11: in both programs the loop has ended only after an exit word was   *)
(* read (trimmed and lower-cased) or after Ctrl+C; an exception raised by *)
(* input() or while a turn was handled was reported, and the loop is back *)
(* at its top to read the next line.                                      *)
C11_LoopEndsOnlyOnExitOrInterrupt ==
    /\ cpc = "stopped" =>
          \/ stop = "exit" /\ Lower(user_input) \in ExitWords
          \/ stop \in Interrupts /\ sigint
    /\ raised \in LoopExceptions =>
          /\ cpc = "input"
          /\ "Error in chat loop" \in logged
          /\ Contains(printed, "Error: ")

C11_Witness ==
    /\ cpc = "input"
    /\ raised = "RunnerError"
    /\ forwarded = <<user_input>>
    /\ "Error in chat loop" \in logged

(* C12: a line is given to the agent runner only if, trimmed, it is not  *)
(* empty and not an exit word and, in the guardrailed program, only once *)
(* the input check of that line has ended without judging it unsafe; a   *)
(* line judged unsafe is answered with the guardrail's text and is not   *)
(* given to the runner.                                                  *)
C12_ForwardOnlyCheckedMessages ==
    /\ forwarded # <<>> =>
          /\ forwarded = <<user_input>>
          /\ user_input # <<>>
          /\ Strip(user_input) = user_input
          /\ Lower(user_input) \notin ExitWords
          /\ program = "chat_with_guardrails" => is_safe = "True"
    /\ is_safe = "False" =>
          /\ forwarded = <<>>
          /\ printed = <<"Guardrails: ">> \o safety_response
          /\ cpc = "input"

C12_Witness ==
    /\ program = "chat_with_guardrails"
    /\ is_safe = "False"
    /\ user_input # <<>>
    /\ forwarded = <<>>
    /\ printed = <<"Guardrails: ">> \o safety_response

(* C13: the guardrail checks fail open: after an error of the input check *)
(* the line counts as safe and is given to the runner, after an error of  *)
(* the output check the response counts as safe and is not marked as      *)
(* filtered; the error never reaches the loop, and the loop does not end  *)
(* because of it.                                                         *)
C13_GuardrailsFailOpen ==
    /\ "Error checking input safety" \in logged =>
          /\ is_safe = "True"
          /\ forwarded = <<user_input>>
    /\ "Error checking output safety" \in logged =>
          /\ output_safe = "True"
          /\ ~Contains(printed, FilterNotice)
    /\ raised # "RailsError"
    /\ (logged \cap GuardrailErrors # {} /\ cpc = "stopped") =>
          (stop \in Interrupts /\ sigint)

C13_Witness ==
    /\ cpc = "input"
    /\ GuardrailErrors \subseteq logged
    /\ forwarded = <<user_input>>
    /\ output_safe = "True"

====
